---- MODULE Spec2Model ----
(***************************************************************************)
(* A model of src/index.py: the FileProcessor class (read_file,            *)
(* write_file, process_text), get_user_input and the menu loop of main.    *)
(*                                                                         *)
(* Text is a sequence of Unicode code points, file data a sequence of      *)
(* bytes (0..255).  The codecs are modelled by what CPython does on a      *)
(* POSIX, little-endian host whose locale encoding is UTF-8               *)
(* (os.linesep = "\n").                                                    *)
(***************************************************************************)
EXTENDS Integers, Sequences, FiniteSets, TLC

VARIABLES
    fs,               \* the file system: path -> entry, existing paths only
    processed_files,  \* FileProcessor.processed_files
    errors,           \* FileProcessor.errors
    ret,              \* the value returned by the last call
    call,             \* the last call: its arguments and what it did
    pc,               \* main: the prompt the loop is waiting at
    loc,              \* main: the locals live across prompts
    exit_status,      \* the process's exit status once it has ended
    event,            \* main: what the last input() did
    ncalls            \* calls / menu inputs so far (bounds the run)

vars ==
    <<fs, processed_files, errors, ret, call, pc, loc, exit_status, event,
      ncalls>>

(***************************************************************************)
(* Bounds of the model.                                                    *)
(***************************************************************************)
MaxBytes == 4       \* longest file drawn for the reader
MaxText == 3        \* longest text drawn for the transformer
MaxCalls == 3       \* calls on one FileProcessor

\* The bytes files are drawn from: NUL, LF, CR, 'A', a UTF-8 continuation
\* byte, a UTF-8 two-byte lead, a surrogate high byte, and the two BOM bytes.
Bytes == {0, 10, 13, 65, 169, 195, 216, 254, 255}

\* The characters texts are drawn from: TAB, LF, CR, space, 'a', sharp s
\* (uppercases to "SS") and LINE SEPARATOR (U+2028).
Chars == {9, 10, 13, 32, 97, 223, 8232}

RECURSIVE SeqsUpTo(_, _)
SeqsUpTo(S, n) ==
    IF n = 0 THEN {<<>>}
    ELSE LET shorter == SeqsUpTo(S, n - 1)
         IN  shorter \cup {Append(s, x) : s \in shorter, x \in S}

(***************************************************************************)
(* Codecs.  A decode yields [err, text]: err is "none" or the exception.   *)
(***************************************************************************)
Decoded(t) == [err |-> "none", text |-> t]
DecodeFails(e) == [err |-> e, text |-> <<>>]

IsCont(b) == b >= 128 /\ b <= 191

\* codecs.utf_8_decode, strict: shortest form only, no surrogates, at most
\* U+10FFFF.  Utf8Len is the length of the sequence a lead byte starts (0:
\* not a lead byte).
Utf8Len(b0) ==
    IF b0 < 128 THEN 1
    ELSE IF b0 >= 194 /\ b0 <= 223 THEN 2
    ELSE IF b0 >= 224 /\ b0 <= 239 THEN 3
    ELSE IF b0 >= 240 /\ b0 <= 244 THEN 4
    ELSE 0

Utf8WellFormed(b, i, n) ==
    /\ n > 0
    /\ i + n - 1 <= Len(b)
    /\ \A k \in 1..(n - 1) : IsCont(b[i + k])
    /\ (b[i] = 224 => b[i + 1] >= 160)
    /\ (b[i] = 237 => b[i + 1] <= 159)
    /\ (b[i] = 240 => b[i + 1] >= 144)
    /\ (b[i] = 244 => b[i + 1] <= 143)

Utf8CodePoint(b, i, n) ==
    IF n = 1 THEN b[i]
    ELSE IF n = 2 THEN (b[i] - 192) * 64 + (b[i + 1] - 128)
    ELSE IF n = 3 THEN (b[i] - 224) * 4096 + (b[i + 1] - 128) * 64
                       + (b[i + 2] - 128)
    ELSE (b[i] - 240) * 262144 + (b[i + 1] - 128) * 4096
         + (b[i + 2] - 128) * 64 + (b[i + 3] - 128)

\* The indices 1..n in order.
Indices(n) == [i \in 1..n |-> i]

\* The indices of b at which a character starts: the bytes that are not
\* continuation bytes.
Utf8Starts(b) == SelectSeq(Indices(Len(b)), LAMBDA i : ~IsCont(b[i]))

\* b is UTF-8: it starts with a character, every character is well formed
\* and ends where the next one starts (the last one at the end of b).
Utf8Valid(b, starts) ==
    /\ Len(b) > 0 => (Len(starts) > 0 /\ starts[1] = 1)
    /\ \A k \in 1..Len(starts) :
          /\ Utf8WellFormed(b, starts[k], Utf8Len(b[starts[k]]))
          /\ starts[k] + Utf8Len(b[starts[k]])
                = (IF k < Len(starts) THEN starts[k + 1] ELSE Len(b) + 1)

Utf8Chars(b, starts) ==
    [k \in 1..Len(starts) |->
        Utf8CodePoint(b, starts[k], Utf8Len(b[starts[k]]))]

Utf8Decoded(b, starts) ==
    IF Utf8Valid(b, starts) THEN Decoded(Utf8Chars(b, starts))
    ELSE DecodeFails("UnicodeDecodeError")

DecodeUtf8(b) == Utf8Decoded(b, Utf8Starts(b))

\* codecs.utf_16_le_decode / utf_16_be_decode with final=True, on the bytes
\* of b after the first `skip`: the 16-bit code units in the byte order
\* given; a truncated unit or an unpaired surrogate is an error.
Utf16Units(b, skip, le) ==
    [k \in 1..((Len(b) - skip) \div 2) |->
        IF le THEN b[skip + 2 * k - 1] + 256 * b[skip + 2 * k]
        ELSE 256 * b[skip + 2 * k - 1] + b[skip + 2 * k]]

IsHighSurrogate(u) == u >= 55296 /\ u <= 56319
IsLowSurrogate(u) == u >= 56320 /\ u <= 57343

\* Unit k is the low half of a surrogate pair.
IsTrail(u, k) == IsLowSurrogate(u[k]) /\ k > 1 /\ IsHighSurrogate(u[k - 1])

Utf16Valid(b, skip, u) ==
    /\ (Len(b) - skip) % 2 = 0
    /\ \A k \in 1..Len(u) :
          /\ IsLowSurrogate(u[k]) => IsTrail(u, k)
          /\ IsHighSurrogate(u[k]) => (k < Len(u) /\ IsLowSurrogate(u[k + 1]))

Utf16CodePoint(u, k) ==
    IF IsHighSurrogate(u[k])
    THEN 65536 + (u[k] - 55296) * 1024 + (u[k + 1] - 56320)
    ELSE u[k]

Utf16Chars(u, heads) == [j \in 1..Len(heads) |-> Utf16CodePoint(u, heads[j])]

\* The text of the units u, or <<-1>> when b is not UTF-16.
Utf16Text(b, skip, u) ==
    IF Utf16Valid(b, skip, u)
    THEN Utf16Chars(u, SelectSeq(Indices(Len(u)), LAMBDA k : ~IsTrail(u, k)))
    ELSE <<-1>>

Utf16From(b, skip, le) == Utf16Text(b, skip, Utf16Units(b, skip, le))

DecodeResult(r, exc) == IF r = <<-1>> THEN DecodeFails(exc) ELSE Decoded(r)

\* encodings/utf_16.py IncrementalDecoder._buffer_decode, as TextIOWrapper
\* drives it for read(): a byte order mark selects the byte order; without
\* one the data is decoded in native order and, when that consumed a code
\* unit, UnicodeError("UTF-16 stream does not start with BOM") is raised.
HasBom(b, first, second) == Len(b) >= 2 /\ b[1] = first /\ b[2] = second

Utf16NoBom(b, r) ==
    IF r = <<-1>> THEN DecodeFails("UnicodeDecodeError")
    ELSE IF Len(b) >= 2 THEN DecodeFails("UnicodeError")
    ELSE Decoded(r)

DecodeUtf16(b) ==
    IF HasBom(b, 255, 254)
    THEN DecodeResult(Utf16From(b, 2, TRUE), "UnicodeDecodeError")
    ELSE IF HasBom(b, 254, 255)
    THEN DecodeResult(Utf16From(b, 2, FALSE), "UnicodeDecodeError")
    ELSE Utf16NoBom(b, Utf16From(b, 0, TRUE))

\* latin-1: every byte is the code point of the same value.
DecodeLatin1(b) == Decoded(b)

\* cp1252: 0x81, 0x8D, 0x8F, 0x90, 0x9D are undefined; 0x80..0x9F map to
\* the Windows punctuation block; every other byte maps to itself.
Cp1252High ==
    <<8364, -1, 8218, 402, 8222, 8230, 8224, 8225,
      710, 8240, 352, 8249, 338, -1, 381, -1,
      -1, 8216, 8217, 8220, 8221, 8226, 8211, 8212,
      732, 8482, 353, 8250, 339, -1, 382, 376>>

Cp1252Char(x) == IF x >= 128 /\ x <= 159 THEN Cp1252High[x - 127] ELSE x

DecodeCp1252(b) ==
    IF \E i \in 1..Len(b) : Cp1252Char(b[i]) = -1
    THEN DecodeFails("UnicodeDecodeError")
    ELSE Decoded([i \in 1..Len(b) |-> Cp1252Char(b[i])])

Decode(enc, b) ==
    CASE enc = "utf-8" -> DecodeUtf8(b)
      [] enc = "utf-16" -> DecodeUtf16(b)
      [] enc = "latin-1" -> DecodeLatin1(b)
      [] enc = "cp1252" -> DecodeCp1252(b)

\* Text-mode reading (newline=None): "\r\n" and a lone "\r" become "\n".
\* Each character is paired with whether a "\r" precedes it; a "\n" after
\* a "\r" is dropped and every "\r" becomes "\n".
AfterCr(t) == [i \in 1..Len(t) |-> <<t[i], i > 1 /\ t[i - 1] = 13>>]

CrToLf(kept) == [i \in 1..Len(kept) |-> IF kept[i][1] = 13 THEN 10 ELSE kept[i][1]]

TranslateNewlines(t) ==
    CrToLf(SelectSeq(AfterCr(t), LAMBDA m : ~(m[1] = 10 /\ m[2])))

\* str.encode('utf-8'): the bytes of one code point; a surrogate has none.
Utf8Bytes(c) ==
    IF c < 128 THEN <<c>>
    ELSE IF c < 2048 THEN <<192 + (c \div 64), 128 + (c % 64)>>
    ELSE IF c < 65536
         THEN <<224 + (c \div 4096), 128 + ((c \div 64) % 64), 128 + (c % 64)>>
    ELSE <<240 + (c \div 262144), 128 + ((c \div 4096) % 64),
           128 + ((c \div 64) % 64), 128 + (c % 64)>>

IsSurrogate(c) == c >= 55296 /\ c <= 57343

\* The bytes of a text: those of its halves, one after the other.
RECURSIVE EncodeUtf8(_)
EncodeUtf8(t) ==
    IF Len(t) = 0 THEN <<>>
    ELSE IF Len(t) = 1 THEN Utf8Bytes(t[1])
    ELSE EncodeUtf8(SubSeq(t, 1, Len(t) \div 2))
         \o EncodeUtf8(SubSeq(t, Len(t) \div 2 + 1, Len(t)))

(***************************************************************************)
(* FileProcessor.process_text.  The string literals of the source, as code *)
(* points.                                                                 *)
(***************************************************************************)
\* '=== FILE STATISTICS ===\nLines: '
StatsHeader ==
    <<61, 61, 61, 32, 70, 73, 76, 69, 32, 83, 84, 65, 84, 73, 83, 84, 73,
      67, 83, 32, 61, 61, 61, 10, 76, 105, 110, 101, 115, 58, 32>>

\* '\nWords: '
StatsWords ==
    <<10, 87, 111, 114, 100, 115, 58, 32>>

\* '\nCharacters: '
StatsChars ==
    <<10, 67, 104, 97, 114, 97, 99, 116, 101, 114, 115, 58, 32>>

\* '\nCharacters (no spaces): '
StatsNoSpaces ==
    <<10, 67, 104, 97, 114, 97, 99, 116, 101, 114, 115, 32, 40, 110, 111,
      32, 115, 112, 97, 99, 101, 115, 41, 58, 32>>

\* '\n\n=== ORIGINAL CONTENT ===\n'
StatsOriginal ==
    <<10, 10, 61, 61, 61, 32, 79, 82, 73, 71, 73, 78, 65, 76, 32, 67, 79,
      78, 84, 69, 78, 84, 32, 61, 61, 61, 10>>

\* '=== CONTENT WITH LINE NUMBERS ===\n'
LineNumbersHeader ==
    <<61, 61, 61, 32, 67, 79, 78, 84, 69, 78, 84, 32, 87, 73, 84, 72, 32,
      76, 73, 78, 69, 32, 78, 85, 77, 66, 69, 82, 83, 32, 61, 61, 61, 10>>

\* '=== CONTENT WITH REVERSED LINE ORDER ===\n'
ReversedHeader ==
    <<61, 61, 61, 32, 67, 79, 78, 84, 69, 78, 84, 32, 87, 73, 84, 72, 32,
      82, 69, 86, 69, 82, 83, 69, 68, 32, 76, 73, 78, 69, 32, 79, 82, 68,
      69, 82, 32, 61, 61, 61, 10>>

\* '=== CONTENT IN UPPERCASE ===\n'
UppercaseHeader ==
    <<61, 61, 61, 32, 67, 79, 78, 84, 69, 78, 84, 32, 73, 78, 32, 85, 80,
      80, 69, 82, 67, 65, 83, 69, 32, 61, 61, 61, 10>>

\* '=== PROCESSED CONTENT (unknown operation: '
UnknownHeaderOpen ==
    <<61, 61, 61, 32, 80, 82, 79, 67, 69, 83, 83, 69, 68, 32, 67, 79, 78,
      84, 69, 78, 84, 32, 40, 117, 110, 107, 110, 111, 119, 110, 32, 111,
      112, 101, 114, 97, 116, 105, 111, 110, 58, 32>>

\* ') ===\n'
UnknownHeaderClose ==
    <<41, 32, 61, 61, 61, 10>>

\* U+274C ' Error processing content: '
ProcessErrorOpen ==
    <<10060, 32, 69, 114, 114, 111, 114, 32, 112, 114, 111, 99, 101, 115,
      115, 105, 110, 103, 32, 99, 111, 110, 116, 101, 110, 116, 58, 32>>

\* '\n\nOriginal content:\n'
ProcessErrorOriginal ==
    <<10, 10, 79, 114, 105, 103, 105, 110, 97, 108, 32, 99, 111, 110, 116,
      101, 110, 116, 58, 10>>

\* "'NoneType' object has no attribute 'splitlines'"
NoneTypeSplitlines ==
    <<39, 78, 111, 110, 101, 84, 121, 112, 101, 39, 32, 111, 98, 106, 101,
      99, 116, 32, 104, 97, 115, 32, 110, 111, 32, 97, 116, 116, 114, 105,
      98, 117, 116, 101, 32, 39, 115, 112, 108, 105, 116, 108, 105, 110,
      101, 115, 39>>

\* 'None'
NoneRepr ==
    <<78, 111, 110, 101>>

\* 'word_count'
OpWordCount ==
    <<119, 111, 114, 100, 95, 99, 111, 117, 110, 116>>

\* 'line_numbers'
OpLineNumbers ==
    <<108, 105, 110, 101, 95, 110, 117, 109, 98, 101, 114, 115>>

\* 'reverse_lines'
OpReverseLines ==
    <<114, 101, 118, 101, 114, 115, 101, 95, 108, 105, 110, 101, 115>>

\* 'uppercase'
OpUppercase ==
    <<117, 112, 112, 101, 114, 99, 97, 115, 101>>

\* 'rot13'
OpOther ==
    <<114, 111, 116, 49, 51>>

\* 'a b\nc\n'
ExampleStats ==
    <<97, 32, 98, 10, 99, 10>>

\* A value that is not a str (None): the model's only non-text content.
NoneValue == <<-1>>

\* The characters str.splitlines() breaks a line at.
LineBreaks == {10, 11, 12, 13, 28, 29, 30, 133, 8232, 8233}

\* The characters str.split() treats as whitespace (str.isspace()).
Whitespace ==
    {9, 10, 11, 12, 13, 28, 29, 30, 31, 32, 133, 160, 5760, 8232, 8233,
     8239, 8287, 12288} \cup (8192..8202)

\* The least index from `from` on whose character is in set S (Len(t) + 1:
\* there is none).
FirstIn(t, from, S) ==
    IF \E i \in from..Len(t) : t[i] \in S
    THEN CHOOSE i \in from..Len(t) :
            t[i] \in S /\ \A j \in from..(i - 1) : t[j] \notin S
    ELSE Len(t) + 1

\* str.splitlines(): a line ends at each line break ("\r\n" is one break,
\* so the "\n" of a "\r\n" ends nothing); the next line starts after the
\* break; what follows the last break is a line unless it is empty.
BreakStarts(t) ==
    SelectSeq(Indices(Len(t)),
              LAMBDA i : t[i] \in LineBreaks
                         /\ ~(t[i] = 10 /\ i > 1 /\ t[i - 1] = 13))

AfterBreak(t, i) ==
    IF t[i] = 13 /\ i + 1 <= Len(t) /\ t[i + 1] = 10 THEN i + 2 ELSE i + 1

LineStart(t, breaks, k) == IF k = 1 THEN 1 ELSE AfterBreak(t, breaks[k - 1])

LinesAt(t, breaks) ==
    [k \in 1..Len(breaks) |->
        SubSeq(t, LineStart(t, breaks, k), breaks[k] - 1)]
    \o (IF LineStart(t, breaks, Len(breaks) + 1) <= Len(t)
        THEN <<SubSeq(t, LineStart(t, breaks, Len(breaks) + 1), Len(t))>>
        ELSE <<>>)

SplitLines(t) == LinesAt(t, BreakStarts(t))

\* str.split() with no separator: a token starts at a character that is
\* not whitespace and follows whitespace (or nothing), and runs to the
\* next whitespace.
TokenStarts(t) ==
    SelectSeq(Indices(Len(t)),
              LAMBDA i : t[i] \notin Whitespace
                         /\ (i = 1 \/ t[i - 1] \in Whitespace))

TokensAt(t, starts) ==
    [k \in 1..Len(starts) |->
        SubSeq(t, starts[k], FirstIn(t, starts[k], Whitespace) - 1)]

Split(t) == TokensAt(t, TokenStarts(t))

\* content without any whitespace, not only without the spaces.
RemoveSpaces_whitespace(t) == SelectSeq(t, LAMBDA c : c \notin Whitespace)

\* content.replace(' ', ''): the text without its U+0020 characters.
RemoveSpaces(t) == SelectSeq(t, LAMBDA c : c # 32)

\* str(n) for n >= 0: the decimal digits.
RECURSIVE Dec(_)
Dec(n) == IF n < 10 THEN <<48 + n>> ELSE Dec(n \div 10) \o <<48 + (n % 10)>>

\* f"{n:3d}" is PadLeft(Dec(n), 3): the decimal digits, right-aligned in a
\* field of width 3.
PadLeft(d, width) ==
    IF Len(d) >= width THEN d ELSE [i \in 1..(width - Len(d)) |-> 32] \o d

\* sep.join(items): the halves joined, with sep between them.
RECURSIVE Join(_, _)
Join(sep, items) ==
    IF Len(items) = 0 THEN <<>>
    ELSE IF Len(items) = 1 THEN items[1]
    ELSE Join(sep, SubSeq(items, 1, Len(items) \div 2)) \o sep
         \o Join(sep, SubSeq(items, Len(items) \div 2 + 1, Len(items)))

\* lines[::-1]
Reversed(s) == [i \in 1..Len(s) |-> s[Len(s) + 1 - i]]

\* str.swapcase() of one character in place of str.upper().
UpperChar_swapcase(c) ==
    IF c >= 97 /\ c <= 122 THEN <<c - 32>>
    ELSE IF c >= 65 /\ c <= 90 THEN <<c + 32>>
    ELSE <<c>>

\* str.upper() of one character, for the code points below U+0100 and the
\* caseless ones above: sharp s becomes "SS", y-diaeresis and micro leave
\* Latin-1.
UpperChar(c) ==
    IF (c >= 97 /\ c <= 122) \/ (c >= 224 /\ c <= 254 /\ c # 247)
    THEN <<c - 32>>
    ELSE IF c = 223 THEN <<83, 83>>
    ELSE IF c = 255 THEN <<376>>
    ELSE IF c = 181 THEN <<924>>
    ELSE <<c>>

\* str.upper(): the upper case of a text is that of its halves.
RECURSIVE Upper(_)
Upper(t) ==
    IF Len(t) = 0 THEN <<>>
    ELSE IF Len(t) = 1 THEN UpperChar(t[1])
    ELSE Upper(SubSeq(t, 1, Len(t) \div 2))
         \o Upper(SubSeq(t, Len(t) \div 2 + 1, Len(t)))

\* The statistics report (operation "word_count").
WordCountReport(content) ==
    StatsHeader \o Dec(Len(SplitLines(content)))
    \o StatsWords \o Dec(Len(Split(content)))
    \o StatsChars \o Dec(Len(content))
    \o StatsNoSpaces \o Dec(Len(RemoveSpaces(content)))
    \o StatsOriginal \o content \o <<10>>

NumberLines(lines) ==
    [i \in 1..Len(lines) |-> PadLeft(Dec(i), 3) \o <<58, 32>> \o lines[i]]

LineNumbersReport(content) ==
    LineNumbersHeader \o Join(<<10>>, NumberLines(SplitLines(content)))

ReverseLinesReport(content) ==
    ReversedHeader \o Join(<<10>>, Reversed(SplitLines(content)))

UppercaseReport(content) == UppercaseHeader \o Upper(content)

UnknownReport(content, operation) ==
    UnknownHeaderOpen \o operation \o UnknownHeaderClose \o content

\* process_text(content, operation).  content.splitlines() is the first
\* statement: for a content that is not a str it raises, and the handler
\* returns the error text.
process_text(content, operation) ==
    IF content = NoneValue
    THEN ProcessErrorOpen \o NoneTypeSplitlines \o ProcessErrorOriginal
         \o NoneRepr
    ELSE IF operation = OpWordCount THEN WordCountReport(content)
    ELSE IF operation = OpLineNumbers THEN LineNumbersReport(content)
    ELSE IF operation = OpReverseLines THEN ReverseLinesReport(content)
    ELSE IF operation = OpUppercase THEN UppercaseReport(content)
    ELSE UnknownReport(content, operation)


(***************************************************************************)
(* Paths (pathlib.Path) and the file system.  A path is the text of its    *)
(* name, relative to the working directory; the working directory itself   *)
(* is the empty path and always exists.                                    *)
(***************************************************************************)
\* '.backup'
BackupSuffix ==
    <<46, 98, 97, 99, 107, 117, 112>>

\* 'processed_'
ProcessedPrefix ==
    <<112, 114, 111, 99, 101, 115, 115, 101, 100, 95>>

\* '.txt'
TxtSuffix ==
    <<46, 116, 120, 116>>

\* 'sample.txt'
SampleDefault ==
    <<115, 97, 109, 112, 108, 101, 46, 116, 120, 116>>

\* 'a.txt'
FileA ==
    <<97, 46, 116, 120, 116>>

\* 'd/o.txt'
FileB ==
    <<100, 47, 111, 46, 116, 120, 116>>

\* 'd'
DirD ==
    <<100>>

\* str.rfind of one character: the last index holding c, or 0.
LastIndexOf(s, c) ==
    LET at == {i \in 1..Len(s) : s[i] = c}
    IN  IF at = {} THEN 0 ELSE CHOOSE i \in at : \A j \in at : j <= i

\* Path.name and Path.parent: the text after and before the last "/".
PathName(p) == SubSeq(p, LastIndexOf(p, 47) + 1, Len(p))
ParentAt(p, i) == IF i = 0 THEN <<>> ELSE SubSeq(p, 1, i - 1)
PathParent(p) == ParentAt(p, LastIndexOf(p, 47))

\* Path.suffix: from the last "." of the name, unless that dot is the
\* first or the last character of the name.
NameSuffix(name, i) ==
    IF 1 < i /\ i < Len(name) THEN SubSeq(name, i, Len(name)) ELSE <<>>

PathSuffix(p) == NameSuffix(PathName(p), LastIndexOf(PathName(p), 46))

\* Path.stem: the name without its suffix.
PathStem(p) == SubSeq(PathName(p), 1, Len(PathName(p)) - Len(PathSuffix(p)))

\* Path.with_suffix(suffix): the same path, its name being stem + suffix.
PathWithSuffix(p, suffix) ==
    SubSeq(p, 1, Len(p) - Len(PathName(p))) \o PathStem(p) \o suffix

\* file_path.with_suffix(f'{file_path.suffix}.backup')
BackupPath(p) == PathWithSuffix(p, PathSuffix(p) \o BackupSuffix)

File(data, r, w) == [kind |-> "file", data |-> data, r |-> r, w |-> w]
Dir == [kind |-> "dir", data |-> <<>>, r |-> TRUE, w |-> TRUE]

Exists(f, p) == p = <<>> \/ p \in DOMAIN f
IsFile(f, p) == p \in DOMAIN f /\ f[p].kind = "file"
IsDir(f, p) == p = <<>> \/ (p \in DOMAIN f /\ f[p].kind = "dir")
Readable(f, p) == p \in DOMAIN f /\ f[p].r

\* The file system with entry e at path p.
Put(f, p, e) == [q \in DOMAIN f \cup {p} |-> IF q = p THEN e ELSE f[q]]

\* A result of a file-system operation: the exception ("none": no
\* exception), the file system it leaves and the value it yields.
FsResult(exc, f, value) == [exc |-> exc, fs |-> f, value |-> value]

\* Path.read_text(): open(..., 'r') in the locale's encoding and read all.
ReadDecoded(f, d) ==
    IF d.err # "none" THEN FsResult(d.err, f, <<>>)
    ELSE FsResult("none", f, TranslateNewlines(d.text))

ReadText(f, p) ==
    IF ~Exists(f, p) THEN FsResult("FileNotFoundError", f, <<>>)
    ELSE IF IsDir(f, p) THEN FsResult("IsADirectoryError", f, <<>>)
    ELSE IF ~f[p].r THEN FsResult("PermissionError", f, <<>>)
    ELSE ReadDecoded(f, DecodeUtf8(f[p].data))

\* open(p, 'w', encoding='utf-8') and write(text): the open truncates (or
\* creates) the file, the write encodes the text; a text that cannot be
\* encoded leaves the file empty.
WriteOpened(f, p, text, old) ==
    IF \E i \in 1..Len(text) : IsSurrogate(text[i])
    THEN FsResult("UnicodeEncodeError",
                  Put(f, p, [old EXCEPT !.data = <<>>]), <<>>)
    ELSE FsResult("none", Put(f, p, [old EXCEPT !.data = EncodeUtf8(text)]),
                  <<>>)

WriteText(f, p, text) ==
    IF IsDir(f, p) THEN FsResult("IsADirectoryError", f, <<>>)
    ELSE IF ~IsDir(f, PathParent(p)) THEN FsResult("FileNotFoundError", f, <<>>)
    ELSE IF ~Exists(f, p) THEN WriteOpened(f, p, text, File(<<>>, TRUE, TRUE))
    ELSE IF ~f[p].w THEN FsResult("PermissionError", f, <<>>)
    ELSE WriteOpened(f, p, text, f[p])

\* Path.mkdir(parents=True, exist_ok=True)
RECURSIVE MkdirParents(_, _)
MkdirIn(p, up) ==
    IF up.exc # "none" THEN up ELSE FsResult("none", Put(up.fs, p, Dir), <<>>)

MkdirAt(f, p, parent) ==
    IF Exists(f, parent) /\ ~IsDir(f, parent)
    THEN FsResult("NotADirectoryError", f, <<>>)
    ELSE MkdirIn(p, MkdirParents(f, parent))

MkdirParents(f, p) ==
    IF IsDir(f, p) THEN FsResult("none", f, <<>>)
    ELSE IF Exists(f, p) THEN FsResult("FileExistsError", f, <<>>)
    ELSE MkdirAt(f, p, PathParent(p))


(***************************************************************************)
(* FileProcessor.read_file and FileProcessor.write_file.                   *)
(*                                                                         *)
(* A message is the f-string that builds it: its template, the filename    *)
(* and the text of the exception it quotes.                                *)
(***************************************************************************)
Msg(tmpl, filename, exc) == [tmpl |-> tmpl, file |-> filename, exc |-> exc]
EmptyMsg == Msg("", <<>>, "")

\* encodings = ['utf-8', 'utf-16', 'latin-1', 'cp1252']
Encodings == <<"utf-8", "utf-16", "latin-1", "cp1252">>

\* The except clause an exception is caught by: PermissionError is an
\* OSError, and so are the other file-system errors; the rest (the Unicode
\* errors among them) are plain Exceptions.
ExcClass(exc) ==
    IF exc = "PermissionError" THEN "PermissionError"
    ELSE IF exc \in {"OSError", "IsADirectoryError", "FileExistsError",
                     "FileNotFoundError", "NotADirectoryError"}
         THEN "OSError"
    ELSE "Exception"

Attempt(outcome, enc, text, exc, tried) ==
    [outcome |-> outcome, enc |-> enc, text |-> text, exc |-> exc,
     tried |-> tried]

\* The loop over the encodings: open, read all; UnicodeDecodeError moves on
\* to the next encoding, any other exception leaves the loop.
RECURSIVE TryEncodings(_, _, _)
\* The loop with the file opened with newline='': no newline translation.
TryDecoded_untranslated(data, encs, tried, d) ==
    IF d.err = "none"
    THEN Attempt("read", Head(encs), d.text, "", Append(tried, Head(encs)))
    ELSE IF d.err = "UnicodeDecodeError"
    THEN TryEncodings(data, Tail(encs), Append(tried, Head(encs)))
    ELSE Attempt("raised", Head(encs), <<>>, d.err, Append(tried, Head(encs)))

TryDecoded(data, encs, tried, d) ==
    IF d.err = "none"
    THEN Attempt("read", Head(encs), TranslateNewlines(d.text), "",
                 Append(tried, Head(encs)))
    ELSE IF d.err = "UnicodeDecodeError"
    THEN TryEncodings(data, Tail(encs), Append(tried, Head(encs)))
    ELSE Attempt("raised", Head(encs), <<>>, d.err, Append(tried, Head(encs)))

TryEncodings(data, encs, tried) ==
    IF encs = <<>> THEN Attempt("exhausted", "", <<>>, "", tried)
    ELSE TryDecoded(data, encs, tried, Decode(Head(encs), data))

\* What a call of read_file does: the tuple it returns, the messages it
\* appends to self.errors, the encodings it tried and what it prints.
ReadOutcome(success, content, error_msg, logged, tried, printed) ==
    [ret |-> [success |-> success, content |-> content, error_msg |-> error_msg],
     logged |-> logged, tried |-> tried, printed |-> printed]

ReadFailure(msg, tried) == ReadOutcome(FALSE, <<>>, msg, <<msg>>, tried, <<>>)

\* The end of read_file, t being how the loop over the encodings ended.
ReadAttempted(filename, t) ==
    IF t.outcome = "read"
    THEN ReadOutcome(TRUE, t.text, EmptyMsg, <<>>, t.tried,
            <<Msg("Successfully read '{}' using {} encoding", filename, t.enc)>>)
    ELSE IF t.outcome = "exhausted"
    THEN ReadFailure(Msg("Could not decode '{}' with any supported encoding",
                         filename, ""), t.tried)
    ELSE ReadFailure(Msg("Unexpected error reading '{}': {}", filename, t.exc),
                     t.tried)

\* read_file without the is_file() check.
read_file_unchecked(f, filename, fault) ==
    IF ~Exists(f, filename)
    THEN ReadFailure(Msg("File '{}' does not exist", filename, ""), <<>>)
    ELSE IF ~Readable(f, filename)
    THEN ReadFailure(Msg("Permission denied: Cannot read '{}'", filename, ""),
                     <<>>)
    ELSE IF fault = "PermissionError"
    THEN ReadFailure(Msg("Permission denied accessing '{}'", filename, ""),
                     <<>>)
    ELSE IF fault = "OSError"
    THEN ReadFailure(Msg("OS Error reading '{}': {}", filename, fault), <<>>)
    ELSE ReadAttempted(filename,
                       TryEncodings(f[filename].data, Encodings, <<>>))

\* read_file(filename) on file system f; fault is the exception open()
\* raises although the checks passed ("none": it opens).
read_file(f, filename, fault) ==
    IF ~Exists(f, filename)
    THEN ReadFailure(Msg("File '{}' does not exist", filename, ""), <<>>)
    ELSE IF ~IsFile(f, filename)
    THEN ReadFailure(Msg("'{}' is not a file", filename, ""), <<>>)
    ELSE IF ~Readable(f, filename)
    THEN ReadFailure(Msg("Permission denied: Cannot read '{}'", filename, ""),
                     <<>>)
    ELSE IF fault = "PermissionError"
    THEN ReadFailure(Msg("Permission denied accessing '{}'", filename, ""),
                     <<>>)
    ELSE IF fault = "OSError"
    THEN ReadFailure(Msg("OS Error reading '{}': {}", filename, fault), <<>>)
    ELSE ReadAttempted(filename,
                       TryEncodings(f[filename].data, Encodings, <<>>))

\* What a call of write_file does: the tuple it returns, the messages it
\* appends to self.errors, the names it appends to self.processed_files,
\* the file system it leaves and what it prints.
WriteOutcome(success, error_msg, logged, processed, f, printed) ==
    [ret |-> [success |-> success, error_msg |-> error_msg],
     logged |-> logged, processed |-> processed, fs |-> f, printed |-> printed]

Step(f, printed) == [fs |-> f, printed |-> printed]

\* The backup step: copy the text of the file to the backup path; any
\* exception is printed as a warning and the step is over.
BackupWarning(exc) == Msg("Warning: Could not create backup: {}", <<>>, exc)

BackupWritten(filename, wr) ==
    IF wr.exc # "none" THEN Step(wr.fs, <<BackupWarning(wr.exc)>>)
    ELSE Step(wr.fs, <<Msg("Created backup: {}", BackupPath(filename), "")>>)

BackupRead(f, filename, rd) ==
    IF rd.exc # "none" THEN Step(f, <<BackupWarning(rd.exc)>>)
    ELSE BackupWritten(filename, WriteText(f, BackupPath(filename), rd.value))

\* write_file that makes no backup copy.
BackupStep_skipped(f, filename) == Step(f, <<>>)

BackupStep(f, filename) == BackupRead(f, filename, ReadText(f, filename))

\* The except clauses of write_file.
WriteErrorMsg(filename, exc) ==
    IF ExcClass(exc) = "PermissionError"
    THEN Msg("Permission denied writing to '{}'", filename, "")
    ELSE IF ExcClass(exc) = "OSError"
    THEN Msg("OS Error writing to '{}': {}", filename, exc)
    ELSE Msg("Unexpected error writing to '{}': {}", filename, exc)

\* An except clause without its self.errors.append(error_msg).
WriteFailed_unlogged(f, printed, msg) ==
    WriteOutcome(FALSE, msg, <<>>, <<>>, f, printed)

WriteFailed(f, printed, msg) ==
    WriteOutcome(FALSE, msg, <<msg>>, <<>>, f, printed)

WriteFailure(filename, exc, f, printed) ==
    WriteFailed(f, printed, WriteErrorMsg(filename, exc))

\* The end of write_file with self.processed_files.append(filename) moved
\* in front of the open.
WriteWritten_listed(filename, printed, wr) ==
    IF wr.exc # "none"
    THEN WriteOutcome(FALSE, WriteErrorMsg(filename, wr.exc),
                      <<WriteErrorMsg(filename, wr.exc)>>, <<filename>>, wr.fs,
                      printed)
    ELSE WriteOutcome(TRUE, EmptyMsg, <<>>, <<filename>>, wr.fs,
            Append(printed, Msg("Successfully wrote to '{}'", filename, "")))

\* The end of write_file, wr being what the open and the write did.
WriteWritten(filename, printed, wr) ==
    IF wr.exc # "none" THEN WriteFailure(filename, wr.exc, wr.fs, printed)
    ELSE WriteOutcome(TRUE, EmptyMsg, <<>>, <<filename>>, wr.fs,
            Append(printed, Msg("Successfully wrote to '{}'", filename, "")))

\* write_file after file_path.parent.mkdir(parents=True, exist_ok=True).
WriteMade(filename, content, printed, mk) ==
    IF mk.exc # "none" THEN WriteFailure(filename, mk.exc, mk.fs, printed)
    ELSE WriteWritten(filename, printed, WriteText(mk.fs, filename, content))

\* write_file after the backup step.
WriteBackedUp(filename, content, bk) ==
    WriteMade(filename, content, bk.printed,
              MkdirParents(bk.fs, PathParent(filename)))

\* write_file(filename, content, backup) on file system f.
write_file(f, filename, content, backup) ==
    IF backup /\ Exists(f, filename)
    THEN WriteBackedUp(filename, content, BackupStep(f, filename))
    ELSE WriteBackedUp(filename, content, Step(f, <<>>))

(***************************************************************************)
(* The state machines.                                                     *)
(***************************************************************************)
Absent == [kind |-> "absent", data |-> <<>>, r |-> FALSE, w |-> FALSE]

\* The file system holding the entries of g that are not Absent.
FsOf(g) == [p \in {q \in DOMAIN g : g[q].kind # "absent"} |-> g[p]]

Call(seq, op, filename, content, operation, backup, fault, tried, printed, fs0) ==
    [seq |-> seq, op |-> op, filename |-> filename, content |-> content,
     operation |-> operation, backup |-> backup, fault |-> fault,
     tried |-> tried, printed |-> printed, fs0 |-> fs0]

NoCall == Call(0, "none", <<>>, <<>>, <<>>, FALSE, "none", <<>>, <<>>, <<>>)

Loc(filename, content, processed_content, shown) ==
    [filename |-> filename, content |-> content,
     processed_content |-> processed_content, shown |-> shown]

NoLoc == Loc(<<>>, <<>>, <<>>, EmptyMsg)

\* What input() does: it returns a line, or raises.
Line(text) == [kind |-> "line", text |-> text]
KeyboardInterrupt == [kind |-> "KeyboardInterrupt", text |-> <<>>]
EOFError == [kind |-> "EOFError", text |-> <<>>]
NoEvent == [kind |-> "none", text |-> <<>>]

\* FileProcessor.__init__ and a process that has not ended.
Fresh(mode) ==
    /\ processed_files = <<>>
    /\ errors = <<>>
    /\ ret = <<>>
    /\ call = NoCall
    /\ pc = mode
    /\ exit_status = -1
    /\ event = NoEvent
    /\ ncalls = 0

\* The exceptions open() may raise in read_file after the checks passed.
Faults == {"none", "PermissionError", "OSError"}

---------------------------------------------------------------------------
\* Spec: any sequence of calls on one FileProcessor.

\* The files of the session: a.txt holds UTF-8 text with a CRLF or bytes
\* that are not UTF-8.
SessionFS ==
    {FsOf((FileA :> a) @@ (BackupPath(FileA) :> b) @@ (DirD :> d)) :
        a \in {Absent, Dir}
              \cup {File(x, r, w) : x \in {<<65, 13, 10>>, <<255, 65>>},
                                    r \in BOOLEAN, w \in BOOLEAN},
        b \in {Absent, Dir, File(<<66>>, TRUE, FALSE)},
        d \in {Absent, File(<<>>, TRUE, TRUE)}}

Init == Fresh("api") /\ loc = NoLoc /\ fs \in SessionFS

ReadFile(filename, fault) ==
    /\ pc = "api"
    /\ ncalls < MaxCalls
    /\ \E r \in {read_file(fs, filename, fault)} :
           /\ ret' = r.ret
           /\ errors' = errors \o r.logged
           /\ call' = Call(call.seq + 1, "read_file", filename, <<>>, <<>>,
                           FALSE, fault, r.tried, r.printed, fs)
    /\ ncalls' = ncalls + 1
    /\ UNCHANGED <<fs, processed_files, pc, loc, exit_status, event>>

WriteFile(filename, content, backup) ==
    /\ pc = "api"
    /\ ncalls < MaxCalls
    /\ \E r \in {write_file(fs, filename, content, backup)} :
           /\ ret' = r.ret
           /\ fs' = r.fs
           /\ errors' = errors \o r.logged
           /\ processed_files' = processed_files \o r.processed
           /\ call' = Call(call.seq + 1, "write_file", filename, content, <<>>,
                           backup, "none", <<>>, r.printed, fs)
    /\ ncalls' = ncalls + 1
    /\ UNCHANGED <<pc, loc, exit_status, event>>

ProcessText(content, operation) ==
    /\ pc = "api"
    /\ ncalls < MaxCalls
    /\ ret' = process_text(content, operation)
    /\ call' = Call(call.seq + 1, "process_text", <<>>, content, operation,
                    FALSE, "none", <<>>, <<>>, fs)
    /\ ncalls' = ncalls + 1
    /\ UNCHANGED <<fs, processed_files, errors, pc, loc, exit_status, event>>

\* The texts written are "a" and a lone surrogate; the contents processed
\* are "a\n" and None.
Next ==
    \/ \E filename \in {FileA, FileB}, fault \in Faults :
          ReadFile(filename, fault)
    \/ \E filename \in {FileA, FileB}, content \in {<<97>>, <<55296>>},
          backup \in BOOLEAN : WriteFile(filename, content, backup)
    \/ \E content \in {<<97, 10>>, NoneValue},
          operation \in {OpUppercase, OpOther} : ProcessText(content, operation)

Spec == Init /\ [][Next]_vars

---------------------------------------------------------------------------
\* ReaderSpec: one call of read_file on a path of any kind and content.

ReaderInit ==
    /\ Fresh("reader")
    /\ loc = NoLoc
    /\ fs \in {FsOf(FileA :> e) :
                 e \in {Absent, Dir}
                       \cup {File(x, TRUE, TRUE) : x \in SeqsUpTo(Bytes, MaxBytes)}
                       \cup {File(x, FALSE, TRUE) : x \in SeqsUpTo(Bytes, 1)}}

ReadOnce(fault) ==
    /\ pc = "reader"
    /\ \E r \in {read_file(fs, FileA, fault)} :
           /\ ret' = r.ret
           /\ errors' = errors \o r.logged
           /\ call' = Call(call.seq + 1, "read_file", FileA, <<>>, <<>>,
                           FALSE, fault, r.tried, r.printed, fs)
    /\ pc' = "read"
    /\ ncalls' = ncalls + 1
    /\ UNCHANGED <<fs, processed_files, loc, exit_status, event>>

ReaderSpec == ReaderInit /\ [][\E fault \in Faults : ReadOnce(fault)]_vars

---------------------------------------------------------------------------
\* TextSpec: process_text applied to a text, and once more to its result.

TextInputs ==
    SeqsUpTo(Chars, MaxText)
    \cup {ExampleStats, NoneValue}
    \cup {<<120, 10, 121, 10>>, <<49, 10, 50, 10, 51>>}  \* 'x\ny\n', '1\n2\n3'

TextInit ==
    /\ Fresh("text")
    /\ fs = <<>>
    /\ \E t \in TextInputs : loc = Loc(<<>>, t, <<>>, EmptyMsg)

Transform(operation) ==
    /\ pc = "text"
    /\ ret' = process_text(loc.content, operation)
    /\ call' = Call(call.seq + 1, "process_text", <<>>, loc.content, operation,
                    FALSE, "none", <<>>, <<>>, fs)
    /\ pc' = "once"
    /\ ncalls' = ncalls + 1
    /\ UNCHANGED <<fs, processed_files, errors, loc, exit_status, event>>

TransformAgain ==
    /\ pc = "once"
    /\ ret' = process_text(ret, call.operation)
    /\ loc' = [loc EXCEPT !.processed_content = ret]
    /\ call' = Call(call.seq + 1, "process_text", <<>>, ret, call.operation,
                    FALSE, "none", <<>>, <<>>, fs)
    /\ pc' = "twice"
    /\ ncalls' = ncalls + 1
    /\ UNCHANGED <<fs, processed_files, errors, exit_status, event>>

TextNext ==
    \/ \E operation \in {OpWordCount, OpLineNumbers, OpReverseLines,
                          OpUppercase, OpOther} : Transform(operation)
    \/ TransformAgain

TextSpec == TextInit /\ [][TextNext]_vars

---------------------------------------------------------------------------
\* MainSpec: main(), the menu loop, one step per input() it waits at.

\* 'Welcome to the File Processing Lab!\nThis is a sample text file creat
SampleHead ==
    <<87, 101, 108, 99, 111, 109, 101, 32, 116, 111, 32, 116, 104, 101,
      32, 70, 105, 108, 101, 32, 80, 114, 111, 99, 101, 115, 115, 105,
      110, 103, 32, 76, 97, 98, 33, 10, 84, 104, 105, 115, 32, 105, 115,
      32, 97, 32, 115, 97, 109, 112, 108, 101, 32, 116, 101, 120, 116, 32,
      102, 105, 108, 101, 32, 99, 114, 101, 97, 116, 101, 100, 32, 111,
      110, 32>>

\* '.\n\nThis file contains multiple lines for testing:\n- Line processin
SampleTail ==
    <<46, 10, 10, 84, 104, 105, 115, 32, 102, 105, 108, 101, 32, 99, 111,
      110, 116, 97, 105, 110, 115, 32, 109, 117, 108, 116, 105, 112, 108,
      101, 32, 108, 105, 110, 101, 115, 32, 102, 111, 114, 32, 116, 101,
      115, 116, 105, 110, 103, 58, 10, 45, 32, 76, 105, 110, 101, 32, 112,
      114, 111, 99, 101, 115, 115, 105, 110, 103, 10, 45, 32, 87, 111,
      114, 100, 32, 99, 111, 117, 110, 116, 105, 110, 103, 10, 45, 32, 67,
      104, 97, 114, 97, 99, 116, 101, 114, 32, 97, 110, 97, 108, 121, 115,
      105, 115, 10, 45, 32, 69, 114, 114, 111, 114, 32, 104, 97, 110, 100,
      108, 105, 110, 103, 10, 10, 80, 121, 116, 104, 111, 110, 32, 109,
      97, 107, 101, 115, 32, 102, 105, 108, 101, 32, 104, 97, 110, 100,
      108, 105, 110, 103, 32, 101, 97, 115, 121, 32, 97, 110, 100, 32,
      114, 111, 98, 117, 115, 116, 33, 10, 82, 101, 109, 101, 109, 98,
      101, 114, 32, 116, 111, 32, 97, 108, 119, 97, 121, 115, 32, 104, 97,
      110, 100, 108, 101, 32, 101, 120, 99, 101, 112, 116, 105, 111, 110,
      115, 32, 103, 114, 97, 99, 101, 102, 117, 108, 108, 121, 46, 10, 10,
      72, 97, 112, 112, 121, 32, 99, 111, 100, 105, 110, 103, 33, 32,
      128013, 10>>

\* '2025-01-31 09:30:00'
Timestamp ==
    <<50, 48, 50, 53, 45, 48, 49, 45, 51, 49, 32, 48, 57, 58, 51, 48, 58,
      48, 48>>

\* sample_content: the f-string of main; Timestamp stands for
\* datetime.now().strftime('%Y-%m-%d %H:%M:%S').
SampleContent == SampleHead \o Timestamp \o SampleTail

\* str.strip(): without the leading and the trailing whitespace.
StripBetween(t, keep) ==
    IF keep = {} THEN <<>>
    ELSE SubSeq(t, CHOOSE i \in keep : \A j \in keep : i <= j,
                   CHOOSE i \in keep : \A j \in keep : j <= i)

Strip(t) == StripBetween(t, {i \in 1..Len(t) : t[i] \notin Whitespace})

Got(outcome, value, status) ==
    [outcome |-> outcome, value |-> value, status |-> status]

\* get_user_input with sys.exit(0) for EOFError too.
get_user_input_exit0(inp, required) ==
    IF inp.kind \in {"KeyboardInterrupt", "EOFError"} THEN Got("exit", <<>>, 0)
    ELSE IF required /\ Strip(inp.text) = <<>> THEN Got("again", <<>>, -1)
    ELSE Got("value", Strip(inp.text), -1)

\* get_user_input(prompt, required) for one input(): the stripped line, or
\* another round of its loop (an empty line when one is required), or
\* sys.exit.
get_user_input(inp, required) ==
    IF inp.kind = "KeyboardInterrupt" THEN Got("exit", <<>>, 0)
    ELSE IF inp.kind = "EOFError" THEN Got("exit", <<>>, 1)
    ELSE IF required /\ Strip(inp.text) = <<>> THEN Got("again", <<>>, -1)
    ELSE Got("value", Strip(inp.text), -1)

\* operations.get(op_choice, "word_count")
OperationOf(op_choice) ==
    IF op_choice = <<49>> THEN OpWordCount
    ELSE IF op_choice = <<50>> THEN OpLineNumbers
    ELSE IF op_choice = <<51>> THEN OpReverseLines
    ELSE IF op_choice = <<52>> THEN OpUppercase
    ELSE OpWordCount

\* default_output = f"processed_{Path(filename).stem}.txt"
DefaultOutput(filename) == ProcessedPrefix \o PathStem(filename) \o TxtSuffix

\* The process ends with the status given.
Ended(status) ==
    /\ pc' = "ended"
    /\ exit_status' = status
    /\ UNCHANGED <<fs, processed_files, errors, ret, call, loc>>

\* get_user_input prints "Input cannot be empty" and prompts again.
Again == UNCHANGED <<fs, processed_files, errors, ret, call, pc, loc, exit_status>>

\* Back at the top of the loop, error_msg printed (EmptyMsg: nothing).
ToMenu(shown) ==
    /\ pc' = "menu"
    /\ loc' = Loc(<<>>, <<>>, <<>>, shown)
    /\ exit_status' = exit_status

\* The branch of main for a choice.
Chosen(choice) ==
    IF choice = <<49>>
    THEN pc' = "filename"
         /\ UNCHANGED <<fs, processed_files, errors, ret, call, loc, exit_status>>
    ELSE IF choice = <<50>>
    THEN pc' = "sample"
         /\ UNCHANGED <<fs, processed_files, errors, ret, call, loc, exit_status>>
    ELSE IF choice = <<52>> THEN Ended(0)
    ELSE ToMenu(EmptyMsg)
         /\ UNCHANGED <<fs, processed_files, errors, ret, call>>

\* processor.read_file(filename) without the test of its success.
ReadChosen_untested(filename, fault, r) ==
    /\ ret' = r.ret
    /\ errors' = errors \o r.logged
    /\ call' = Call(call.seq + 1, "read_file", filename, <<>>, <<>>, FALSE,
                    fault, r.tried, r.printed, fs)
    /\ pc' = "op"
    /\ loc' = Loc(filename, r.ret.content, <<>>, EmptyMsg)
    /\ exit_status' = exit_status
    /\ UNCHANGED <<fs, processed_files>>

\* processor.read_file(filename) and the test of its success.
ReadChosen(filename, fault, r) ==
    /\ ret' = r.ret
    /\ errors' = errors \o r.logged
    /\ call' = Call(call.seq + 1, "read_file", filename, <<>>, <<>>, FALSE,
                    fault, r.tried, r.printed, fs)
    /\ IF r.ret.success
       THEN /\ pc' = "op"
            /\ loc' = Loc(filename, r.ret.content, <<>>, EmptyMsg)
            /\ exit_status' = exit_status
       ELSE ToMenu(r.ret.error_msg)
    /\ UNCHANGED <<fs, processed_files>>

\* processor.write_file(...) and the report of its result.
WriteChosen(filename, content, backup, r) ==
    /\ ret' = r.ret
    /\ fs' = r.fs
    /\ errors' = errors \o r.logged
    /\ processed_files' = processed_files \o r.processed
    /\ call' = Call(call.seq + 1, "write_file", filename, content, <<>>, backup,
                    "none", <<>>, r.printed, fs)
    /\ ToMenu(r.ret.error_msg)

WriteTo(filename, content, backup) ==
    WriteChosen(filename, content, backup,
                write_file(fs, filename, content, backup))

\* inputs to the menu loop
MaxInputs == 4

\* input() at the prompt `at` does inp.
Prompt(at, inp) ==
    pc = at /\ ncalls < MaxInputs /\ ncalls' = ncalls + 1 /\ event' = inp

\* choice = get_user_input("\nEnter your choice (1-4): ")
EnterChoice(inp) ==
    /\ Prompt("menu", inp)
    /\ \E g \in {get_user_input(inp, TRUE)} :
          IF g.outcome = "exit" THEN Ended(g.status)
          ELSE IF g.outcome = "again" THEN Again
          ELSE Chosen(g.value)

\* filename = get_user_input("Enter filename to read: ")
EnterFilename(inp, fault) ==
    /\ Prompt("filename", inp)
    /\ \E g \in {get_user_input(inp, TRUE)} :
          IF g.outcome = "exit" THEN Ended(g.status)
          ELSE IF g.outcome = "again" THEN Again
          ELSE ReadChosen(g.value, fault, read_file(fs, g.value, fault))

\* op_choice = get_user_input("Enter operation (1-4): ")
EnterOperation(inp) ==
    /\ Prompt("op", inp)
    /\ \E g \in {get_user_input(inp, TRUE)} :
          IF g.outcome = "exit" THEN Ended(g.status)
          ELSE IF g.outcome = "again" THEN Again
          ELSE /\ ret' = process_text(loc.content, OperationOf(g.value))
               /\ call' = Call(call.seq + 1, "process_text", <<>>, loc.content,
                               OperationOf(g.value), FALSE, "none", <<>>, <<>>,
                               fs)
               /\ loc' = [loc EXCEPT !.processed_content = ret']
               /\ pc' = "output"
               /\ UNCHANGED <<fs, processed_files, errors, exit_status>>

\* output_filename = get_user_input(..., required=False)
EnterOutput(inp) ==
    /\ Prompt("output", inp)
    /\ \E g \in {get_user_input(inp, FALSE)} :
          IF g.outcome = "exit" THEN Ended(g.status)
          ELSE IF g.value = <<>>
          THEN WriteTo(DefaultOutput(loc.filename), loc.processed_content, TRUE)
          ELSE WriteTo(g.value, loc.processed_content, TRUE)

\* sample_filename = get_user_input(..., required=False)
EnterSample(inp) ==
    /\ Prompt("sample", inp)
    /\ \E g \in {get_user_input(inp, FALSE)} :
          IF g.outcome = "exit" THEN Ended(g.status)
          ELSE IF g.value = <<>> THEN WriteTo(SampleDefault, SampleContent, FALSE)
          ELSE WriteTo(g.value, SampleContent, FALSE)

\* except KeyboardInterrupt in main: an interrupt that arrives while the
\* body of the loop runs (before it prompts) leaves the loop.
Interrupted ==
    /\ pc \in {"menu", "filename", "op", "output", "sample"}
    /\ ncalls < MaxInputs
    /\ ncalls' = ncalls + 1
    /\ event' = KeyboardInterrupt
    /\ Ended(0)

\* except Exception in main: an exception raised while the body of the
\* loop runs (by a print before it prompts) returns to the menu.
Unexpected ==
    /\ pc \in {"filename", "op", "output", "sample"}
    /\ ncalls < MaxInputs
    /\ ncalls' = ncalls + 1
    /\ event' = [kind |-> "Exception", text |-> <<>>]
    /\ ToMenu(EmptyMsg)
    /\ UNCHANGED <<fs, processed_files, errors, ret, call>>

\* What input() may do at a prompt, given the lines that may be typed.
Inputs(lines) == {Line(x) : x \in lines} \cup {KeyboardInterrupt, EOFError}

\* The files main starts with: a.txt is absent, a directory, a UTF-8 text,
\* or Latin-1 bytes.
MainFS ==
    {FsOf(FileA :> a) :
        a \in {Absent, Dir, File(<<97, 32, 98, 13, 10, 99>>, TRUE, TRUE),
               File(<<99, 233>>, TRUE, TRUE)}}

MainInit == Fresh("menu") /\ loc = NoLoc /\ fs \in MainFS

MainNext ==
    \/ \E inp \in Inputs({<<49>>, <<50>>, <<51>>, <<52>>, <<57>>, <<>>,
                          <<32, 49, 32>>}) : EnterChoice(inp)
    \/ \E inp \in Inputs({FileA, FileB, <<32>>}), fault \in Faults :
          EnterFilename(inp, fault)
    \/ \E inp \in Inputs({<<49>>, <<50>>, <<51>>, <<52>>, <<120>>, <<>>}) :
          EnterOperation(inp)
    \/ \E inp \in Inputs({<<>>, FileA, FileB}) : EnterOutput(inp)
    \/ \E inp \in Inputs({<<>>, FileA}) : EnterSample(inp)
    \/ Interrupted
    \/ Unexpected

MainSpec == MainInit /\ [][MainNext]_vars

(***************************************************************************)
(* Properties of read_file, checked under ReaderSpec.                      *)
(***************************************************************************)
\* The entry the call found at the path it was given.
EntryRead ==
    IF call.filename \in DOMAIN call.fs0 THEN call.fs0[call.filename] ELSE Absent

ReadFailed(tmpl) ==
    /\ ret = [success |-> FALSE, content |-> <<>>,
              error_msg |-> Msg(tmpl, call.filename, "")]
    /\ call.tried = <<>>
    /\ call.printed = <<>>

\* C1: read_file fails at the first check that does not pass -- a path that
\* does not exist gives (False, "", "File ... does not exist"), one that is
\* not a regular file gives "... is not a file", an unreadable regular file
\* gives "Permission denied: Cannot read ..." -- and no encoding is tried.
C1_ChecksInOrder ==
    pc = "read" =>
        /\ EntryRead.kind = "absent" => ReadFailed("File '{}' does not exist")
        /\ EntryRead.kind = "dir" => ReadFailed("'{}' is not a file")
        /\ EntryRead.kind = "file" /\ ~EntryRead.r
               => ReadFailed("Permission denied: Cannot read '{}'")

\* A directory was read, and the read failed as "not a file".
C1_Witness ==
    /\ pc = "read"
    /\ EntryRead.kind = "dir"
    /\ ~ret.success
    /\ ret.error_msg.tmpl = "'{}' is not a file"
    /\ errors = <<ret.error_msg>>

\* The call got past the checks and open() raised nothing.
Opened ==
    /\ pc = "read"
    /\ EntryRead.kind = "file"
    /\ EntryRead.r
    /\ call.fault = "none"

\* The places in Encodings of the encodings that decode data without error.
Decoding(data) ==
    {k \in 1..Len(Encodings) : Decode(Encodings[k], data).err = "none"}

First(S) == CHOOSE k \in S : \A j \in S : k <= j

\* C2: for an existing readable regular file the encodings are tried in the
\* order utf-8, utf-16, latin-1, cp1252, the result is the decode of the
\* first of them that decodes without error, and the read fails as
\* undecodable if and only if every one of them fails.
C2_FirstDecodingWins ==
    Opened =>
        IF Decoding(EntryRead.data) = {}
        THEN /\ ~ret.success
             /\ ret.error_msg.tmpl
                    = "Could not decode '{}' with any supported encoding"
        ELSE /\ ret.success
             /\ call.tried = SubSeq(Encodings, 1, First(Decoding(EntryRead.data)))
             /\ ret.content
                    = TranslateNewlines(
                          Decode(Encodings[First(Decoding(EntryRead.data))],
                                 EntryRead.data).text)

\* The encoding a successful read printed.
EncodingUsed == call.printed[1].exc

\* C3: a successful read returns the exact decoded content and the encoding
\* that decoded it.
C3_ExactContentAndEncoding ==
    pc = "read" /\ ret.success =>
        /\ ret.content = Decode(EncodingUsed, EntryRead.data).text
        /\ "encoding" \in DOMAIN ret
        /\ ret.encoding = EncodingUsed

\* C3 as the code has it: a successful read returns (True, content, ""),
\* content being the text the winning encoding decodes with "\r\n" and "\r"
\* turned into "\n"; the encoding is printed, and is no part of what is
\* returned.
C3_TranslatedContentOnly ==
    pc = "read" /\ ret.success =>
        /\ DOMAIN ret = {"success", "content", "error_msg"}
        /\ ret.error_msg = EmptyMsg
        /\ Len(call.printed) = 1
        /\ call.printed[1].tmpl = "Successfully read '{}' using {} encoding"
        /\ EncodingUsed = call.tried[Len(call.tried)]
        /\ Decode(EncodingUsed, EntryRead.data).err = "none"
        /\ \A i \in 1..Len(ret.content) : ret.content[i] # 13
        /\ ret.content
               = TranslateNewlines(Decode(EncodingUsed, EntryRead.data).text)

\* "A\r\n" was read as UTF-8 and came back as "A\n".
C3_Witness ==
    /\ pc = "read"
    /\ ret.success
    /\ EntryRead.data = <<65, 13, 10>>
    /\ EncodingUsed = "utf-8"
    /\ ret.content = <<65, 10>>

(***************************************************************************)
(* Properties of process_text, checked under TextSpec.                     *)
(***************************************************************************)
\* The call was given a text (not None) and this operation.
Processed(operation) ==
    /\ pc \in {"once", "twice"}
    /\ call.content # NoneValue
    /\ call.operation = operation

\* The places where a line of t ends: at a line break, the "\r" of a "\r\n"
\* apart.
LineEnds(t) ==
    {i \in 1..Len(t) :
        /\ t[i] \in LineBreaks
        /\ ~(t[i] = 13 /\ i < Len(t) /\ t[i + 1] = 10)}

\* One more line for a text that does not end at a line break.
Unterminated(t) == IF Len(t) > 0 /\ t[Len(t)] \notin LineBreaks THEN 1 ELSE 0

\* The places where a whitespace-delimited token of t ends.
WordEnds(t) ==
    {i \in 1..Len(t) :
        /\ t[i] \notin Whitespace
        /\ (i = Len(t) \/ t[i + 1] \in Whitespace)}

SpacesIn(t) == {i \in 1..Len(t) : t[i] = 32}

\* '=== FILE STATISTICS ===\nLines: 2\nWords: 3\nCharacters: 6\n
\* Characters (no spaces): 5\n\n=== ORIGINAL CONTENT ===\na b\nc\n\n'
ExampleStatsReport ==
    <<61, 61, 61, 32, 70, 73, 76, 69, 32, 83, 84, 65, 84, 73, 83,
      84, 73, 67, 83, 32, 61, 61, 61, 10, 76, 105, 110, 101, 115,
      58, 32, 50, 10, 87, 111, 114, 100, 115, 58, 32, 51, 10, 67,
      104, 97, 114, 97, 99, 116, 101, 114, 115, 58, 32, 54, 10, 67,
      104, 97, 114, 97, 99, 116, 101, 114, 115, 32, 40, 110, 111,
      32, 115, 112, 97, 99, 101, 115, 41, 58, 32, 53, 10, 10, 61,
      61, 61, 32, 79, 82, 73, 71, 73, 78, 65, 76, 32, 67, 79, 78,
      84, 69, 78, 84, 32, 61, 61, 61, 10, 97, 32, 98, 10, 99, 10, 10>>

\* C8: the statistics report of a text gives Lines = its terminated lines
\* (a line ends at any line break str.splitlines knows) plus one for an
\* unterminated last line, Words = its whitespace-delimited tokens,
\* Characters = its length, Characters (no spaces) = its length less its
\* space characters, then the text itself; "a b\nc\n" gives 2, 3, 6, 5.
C8_Statistics ==
    Processed(OpWordCount) =>
        /\ ret = StatsHeader
                 \o Dec(Cardinality(LineEnds(call.content))
                        + Unterminated(call.content))
                 \o StatsWords \o Dec(Cardinality(WordEnds(call.content)))
                 \o StatsChars \o Dec(Len(call.content))
                 \o StatsNoSpaces
                 \o Dec(Len(call.content) - Cardinality(SpacesIn(call.content)))
                 \o StatsOriginal \o call.content \o <<10>>
        /\ call.content = ExampleStats => ret = ExampleStatsReport

\* The statistics of "a b\nc\n" were reported: 2 lines, 3 words, 6
\* characters, 5 without the space.
C8_Witness ==
    /\ pc = "once"
    /\ call.operation = OpWordCount
    /\ call.content = ExampleStats
    /\ ret = ExampleStatsReport

\* C9: the uppercase operation applied to its own result gives that result
\* again.
C9_UppercaseIdempotent ==
    pc = "twice" /\ Processed(OpUppercase) /\ loc.content # NoneValue
        => ret = loc.processed_content

\* C9 as the code has it: the second application puts the header line in
\* front once more and leaves the rest, which is already upper case, as it
\* is.
C9_HeaderRepeated ==
    pc = "twice" /\ Processed(OpUppercase) /\ loc.content # NoneValue
        => /\ ret = UppercaseHeader \o loc.processed_content
           /\ SubSeq(ret, 2 * Len(UppercaseHeader) + 1, Len(ret))
                  = SubSeq(loc.processed_content, Len(UppercaseHeader) + 1,
                           Len(loc.processed_content))

\* "a" and a sharp s were put in upper case twice: two headers, then "ASS".
C9_Witness ==
    /\ pc = "twice"
    /\ call.operation = OpUppercase
    /\ loc.content = <<97, 223>>
    /\ ret = UppercaseHeader \o UppercaseHeader \o <<65, 83, 83>>

(***************************************************************************)
(* Properties of the calls on one FileProcessor, checked under Spec.       *)
(***************************************************************************)
EntryAt(f, p) == IF p \in DOMAIN f THEN f[p] ELSE Absent

\* What write_file found at the path it was given, and at the backup path.
Target == EntryAt(call.fs0, call.filename)
BackupTarget == EntryAt(call.fs0, BackupPath(call.filename))

HasSurrogate(t) == \E i \in 1..Len(t) : t[i] >= 55296 /\ t[i] <= 57343

\* An error arises in the call of read_file: a check does not pass, open()
\* raises, or the last encoding tried did not decode the file.
ReadErrs ==
    \/ Target.kind # "file"
    \/ ~Target.r
    \/ call.fault # "none"
    \/ call.tried = <<>>
    \/ Decode(call.tried[Len(call.tried)], Target.data).err # "none"

\* An error arises in the primary write: the parent is a file, the target
\* is a directory or a file that is not writable, or the content cannot be
\* encoded as UTF-8.
PrimaryErrs ==
    \/ EntryAt(call.fs0, PathParent(call.filename)).kind = "file"
    \/ Target.kind = "dir"
    \/ Target.kind = "file" /\ ~Target.w
    \/ HasSurrogate(call.content)

\* The backup step runs, and it can copy the file: the file is readable
\* UTF-8 text and the backup path can be written.
BackupTried == call.op = "write_file" /\ call.backup /\ Target.kind # "absent"

BackupCanSucceed ==
    /\ Target.kind = "file"
    /\ Target.r
    /\ DecodeUtf8(Target.data).err = "none"
    /\ \/ BackupTarget.kind = "absent"
       \/ BackupTarget.kind = "file" /\ BackupTarget.w

BackupFailed == BackupTried /\ ~BackupCanSucceed

LastError == errors[Len(errors)]

ReadTemplates ==
    {"File '{}' does not exist", "'{}' is not a file",
     "Permission denied: Cannot read '{}'", "Permission denied accessing '{}'",
     "OS Error reading '{}': {}",
     "Could not decode '{}' with any supported encoding",
     "Unexpected error reading '{}': {}"}

WriteTemplates ==
    {"Permission denied writing to '{}'", "OS Error writing to '{}': {}",
     "Unexpected error writing to '{}': {}"}

\* The call failed: it returned failure with a message of these templates
\* about its file, and that message is the last of self.errors.
FailedWith(templates) ==
    /\ ~ret.success
    /\ ret.error_msg.tmpl \in templates
    /\ ret.error_msg.file = call.filename
    /\ errors # <<>>
    /\ LastError = ret.error_msg

C7_OriginalRecoverable ==
    BackupTried /\ Target.kind = "file" =>
        /\ EntryAt(fs, BackupPath(call.filename)).kind = "file"
        /\ EntryAt(fs, BackupPath(call.filename)).data = Target.data

\* C7 as the code has it: the backup is made before the target is opened
\* and its failure does not stop the primary write.  When the backup step
\* can succeed (the file is readable UTF-8 text, the backup path writable),
\* the backup path holds after the call, whatever the primary write did,
\* the UTF-8 encoding of the file's text with "\r\n" and "\r" read as "\n":
\* the file's bytes when it held no "\r".  When it cannot, a warning is
\* printed, the backup path is as it was, and the primary write, if nothing
\* else stops it, replaces the file's content.
C7_BackupWhenItCanBeMade ==
    BackupTried /\ Target.kind = "file" =>
        IF BackupCanSucceed
        THEN /\ EntryAt(fs, BackupPath(call.filename)).kind = "file"
             /\ EntryAt(fs, BackupPath(call.filename)).data
                    = EncodeUtf8(TranslateNewlines(DecodeUtf8(Target.data).text))
             /\ (\A i \in 1..Len(Target.data) : Target.data[i] # 13)
                    => EntryAt(fs, BackupPath(call.filename)).data = Target.data
             /\ call.printed # <<>>
             /\ call.printed[1].tmpl = "Created backup: {}"
        ELSE /\ EntryAt(fs, BackupPath(call.filename)) = BackupTarget
             /\ call.printed # <<>>
             /\ call.printed[1].tmpl = "Warning: Could not create backup: {}"
             /\ ret.success = ~PrimaryErrs
             /\ ret.success
                    => EntryAt(fs, call.filename).data = EncodeUtf8(call.content)

\* The file could not be overwritten, and the backup made before that
\* holds its text.
C7_Witness ==
    /\ BackupTried
    /\ BackupCanSucceed
    /\ Target.data = <<65, 13, 10>>
    /\ ~ret.success
    /\ EntryAt(fs, BackupPath(call.filename)).data = <<65, 10>>

\* C10: each call leaves the two logs as they were but for what it appends:
\* write_file, when it succeeds, its filename to processed_files; read_file
\* and write_file, when they fail, their message to errors; process_text
\* nothing.
C10_LogsAppendOnly ==
    [][/\ processed_files'
              = IF call'.op = "write_file" /\ ret'.success
                THEN Append(processed_files, call'.filename)
                ELSE processed_files
       /\ errors'
              = IF call'.op \in {"read_file", "write_file"} /\ ~ret'.success
                THEN Append(errors, ret'.error_msg)
                ELSE errors]_vars

\* A write succeeded, a call failed, and process_text was the last call.
C10_Witness ==
    /\ call.op = "process_text"
    /\ Len(processed_files) = 1
    /\ Len(errors) = 1

(***************************************************************************)
(* Properties of the menu loop, checked under MainSpec.                    *)
(***************************************************************************)
\* The step calls this method of the FileProcessor.
Calls(op) == call'.seq # call.seq /\ call'.op = op

\* C4: in the read-and-process action a read that fails is followed by its
\* message and the menu, with nothing written; process_text is called only
\* with the content the read before it returned with success, and the
\* write of the action only with what that process_text returned.
C4_FailedReadBackToMenu ==
    [][/\ Calls("read_file") /\ ~ret'.success
              => /\ pc' = "menu"
                 /\ loc'.shown = ret'.error_msg
                 /\ fs' = fs
                 /\ processed_files' = processed_files
       /\ Calls("process_text")
              => /\ call.op = "read_file"
                 /\ ret.success
                 /\ call'.content = ret.content
       /\ Calls("write_file") /\ call'.backup
              => /\ call.op = "process_text"
                 /\ call'.content = ret]_vars

\* A read failed: its message was printed and the menu is next.
C4_Witness ==
    /\ pc = "menu"
    /\ call.op = "read_file"
    /\ ~ret.success
    /\ loc.shown = ret.error_msg
    /\ errors = <<ret.error_msg>>

\* How the process ended: "4" at the menu, end of input at a prompt, an
\* interrupt.
ExplicitExit == event.kind = "line" /\ Strip(event.text) = <<52>>
EndOfInput == event.kind = "EOFError"
Interrupt == event.kind = "KeyboardInterrupt"

\* C5: the process ends only on choice 4 or on end of input at a prompt,
\* and end of input ends it with a status no other end has.
C5_EndsOnExitOrEndOfInput ==
    pc = "ended" =>
        /\ ExplicitExit \/ EndOfInput
        /\ EndOfInput <=> exit_status = 1

\* C5 as the code has it: the process ends on choice 4 (status 0), on end
\* of input at a prompt (status 1) and on a keyboard interrupt, at a prompt
\* or in the body of the loop (status 0), so that end of input alone ends
\* it with a status other than 0; after a read or a write that failed, an
\* invalid choice or an unexpected exception the menu is next.
C5_EndsOnExitEndOfInputOrInterrupt ==
    [][/\ pc' = "ended"
              => /\ ExplicitExit' \/ EndOfInput' \/ Interrupt'
                 /\ exit_status' = IF EndOfInput' THEN 1 ELSE 0
       /\ pc' # "ended" => exit_status' = -1
       /\ (Calls("read_file") \/ Calls("write_file")) /\ ~ret'.success
              => pc' = "menu" /\ loc'.shown = ret'.error_msg
       /\ pc = "menu" /\ event'.kind = "line"
              /\ Strip(event'.text) \notin {<<>>, <<49>>, <<50>>, <<52>>}
              => pc' = "menu"
       /\ event'.kind = "Exception" => pc' = "menu"]_vars

\* The input ended at the prompt for a filename, and the process with
\* status 1.
C5_Witness ==
    /\ pc = "ended"
    /\ EndOfInput
    /\ exit_status = 1
    /\ ncalls = 2

====
